---- MODULE Spec2Model ----
(***************************************************************************)
(* Tool invocations of api/agent/agents.py: gpt_image_generation,          *)
(* gpt_image_capture, gpt_image_edit and sora_video_generation.            *)
(*                                                                         *)
(* One invocation is modelled as a sequential coroutine.  Every `await`    *)
(* (notify, external request, polling delay, persistence) is one step, and *)
(* every step is appended to `log`, so the order of events and calls is a  *)
(* property of the state.                                                  *)
(*                                                                         *)
(* The /create endpoint of api/tools/image (create_image) is modelled the   *)
(* same way, as a specification of its own (EndpointSpec).                 *)
(*                                                                         *)
(* A dictionary key that may be absent is a sequence of length <= 1:       *)
(* <<>> is "key absent", <<v>> is "key present with value v".              *)
(***************************************************************************)
EXTENDS Integers, Sequences, FiniteSets, TLC

VARIABLES
    tool,           \* the tool being run
    n,              \* argument n of gpt_image_generation
    image,          \* argument image of gpt_image_capture / gpt_image_edit (token sequence)
    pc,             \* position of the coroutine
    log,            \* every notify and every external call, in order
    response,       \* post_request result of the image tools
    error_response, \* error body read by sora_video_generation
    job_id,         \* sora: response_data["id"]
    status,         \* sora: last observed status
    status_data,    \* sora: last status payload
    base64_images,  \* image tools: payloads not yet handed out by save_image_blobs
    images,         \* image tools: blob names collected so far
    video_blob,     \* sora: result of save_video_blob
    ret,            \* the returned list (when pc = "returned")
    fault,          \* the exception that left the tool (when pc = "raised")
    cur,            \* the invocation the event loop is running
    parked          \* the frames of the other invocations, suspended at an await

\* the frame of the running invocation
frame == <<tool, n, image, pc, log, response, error_response, job_id, status,
           status_data, base64_images, images, video_blob, ret, fault>>

\* the event loop's own state
sched == <<cur, parked>>

vars == <<frame, sched>>

----------------------------------------------------------------------------
(* Bounds of the model *)

\* longest "data" list an image response carries
MaxData == 2
\* most status fetches of one invocation the model follows
MaxPolls == 5
\* most entries of "generations" in a status payload
MaxGens == 2
\* the same two bounds when several invocations run side by side
ConcMaxData == 1
ConcMaxPolls == 1

----------------------------------------------------------------------------
(* Values *)

Tools == {"gpt_image_generation", "gpt_image_capture", "gpt_image_edit",
          "sora_video_generation"}

\* Statuses a status fetch can report: the provider's own, plus "started" as a
\* provider-defined status that collides with the loop's sentinel.
Terminal == {"succeeded", "failed", "cancelled"}
Statuses == {"queued", "running", "started"} \cup Terminal

ErrMsgs == {"bad request"}
JobIds == {"job-1"}
Payloads == {"img-a", "img-b"}

\* Names the persistence adapter hands out, in call order.
BlobNames == <<"blob-1", "blob-2", "blob-3", "blob-4", "blob-5", "blob-6">>

\* The image argument as tokens: an optional data-URL prefix, then the payload.
Prefix == "data:image/jpeg;base64,"
ImageArgs == {<<"img-a">>, <<Prefix, "img-a">>, <<"placeholder">>}

Opt(S) == {<<>>} \cup {<<x>> : x \in S}

SeqsUpTo(S, k) == UNION {[1..m -> S] : m \in 0..k}

\* the "generations" lists a status payload can carry
AllGens == <<"gen-1", "gen-2", "gen-3", "gen-4">>
GenLists == {SubSeq(AllGens, 1, k) : k \in 0..MaxGens}

\* an entry of "data": the "b64_json" key absent, empty, or a payload
Items == Opt({""} \cup Payloads)

\* several invocations are in flight
Concurrent == DOMAIN parked # {}

DataBound == IF Concurrent THEN ConcMaxData ELSE MaxData
PollBound == IF Concurrent THEN ConcMaxPolls ELSE MaxPolls

\* what post_request can yield: "error" present or not, "data" present or not
Responses == [error : Opt(ErrMsgs), data : Opt(SeqsUpTo(Items, DataBound))]

\* dict.get(key, default)
Get(opt, default) == IF opt = <<>> THEN default ELSE opt[1]

----------------------------------------------------------------------------
(* The log *)

Entry(op, code, id, st, info, refs, output) ==
    [op |-> op, code |-> code, id |-> id, status |-> st, info |-> info,
     refs |-> refs, output |-> output]

\* await notify(id=..., status=..., information=...)
Notify(id, st, info) == Entry("notify", 0, id, st, info, <<>>, FALSE)

\* await notify(id=..., status="step completed", content=Content(...), output=True)
NotifyContent(id, st, ref) == Entry("notify", 0, id, st, <<>>, <<ref>>, TRUE)

\* an external request (with the HTTP status it was answered with, 0 when
\* the call has none), a delay or a persistence call
Call(op, code, info, refs) == Entry(op, code, "", "", info, refs, FALSE)

IsEvent(e) == e.op = "notify"
Events == SelectSeq(log, IsEvent)

CountLog(P(_)) == Cardinality({i \in DOMAIN log : P(log[i])})

IsPersist(e) == e.op = "persist"
PersistCalls == CountLog(IsPersist)

----------------------------------------------------------------------------
(* Collaborators that are not part of api/agent/agents.py *)

\* api.storage: the name given to the next stored blob.
NextBlob == BlobNames[PersistCalls + 1]

----------------------------------------------------------------------------
(* Control *)

Return(list) ==
    /\ pc' = "returned"
    /\ ret' = list
    /\ fault' = "none"

Raise(what) ==
    /\ pc' = "raised"
    /\ fault' = what
    /\ ret' = <<>>

Goto(label) ==
    /\ pc' = label
    /\ UNCHANGED <<ret, fault>>

Args == <<tool, n, image>>
ImageLocals == <<response, base64_images, images>>
SoraLocals == <<error_response, job_id, status, status_data, video_blob>>

\* the frame of an invocation on entry, for every tool and argument
InitFrames ==
    {[tool |-> t, n |-> k, image |-> img, pc |-> "start", log |-> <<>>,
      response |-> [error |-> <<>>, data |-> <<>>],
      error_response |-> [detail |-> <<>>, error |-> <<>>],
      job_id |-> "", status |-> "",
      status_data |-> [status |-> <<>>, generations |-> <<>>],
      base64_images |-> <<>>, images |-> <<>>, video_blob |-> "",
      ret |-> <<>>, fault |-> "none"] :
        t \in Tools, k \in 0..2, img \in ImageArgs \cup {<<>>}}

\* n is an argument of gpt_image_generation only, image of the capture and
\* edit tools only
WellFormed(f) ==
    /\ f.n \in (IF f.tool = "gpt_image_generation" THEN 1..2 ELSE {0})
    /\ f.image \in (IF f.tool \in {"gpt_image_capture", "gpt_image_edit"}
                    THEN ImageArgs ELSE {<<>>})

\* the running invocation starts from frame f
Enter(f) ==
    /\ tool = f.tool
    /\ n = f.n
    /\ image = f.image
    /\ pc = f.pc
    /\ log = f.log
    /\ response = f.response
    /\ error_response = f.error_response
    /\ job_id = f.job_id
    /\ status = f.status
    /\ status_data = f.status_data
    /\ base64_images = f.base64_images
    /\ images = f.images
    /\ video_blob = f.video_blob
    /\ ret = f.ret
    /\ fault = f.fault

Init ==
    /\ \E f \in InitFrames : WellFormed(f) /\ Enter(f)
    /\ cur = 1
    /\ parked = <<>>

----------------------------------------------------------------------------
(* sora_video_generation *)

\* number of status fetches made so far
IsStatusFetch(e) == e.op = "get_status"
StatusFetches == CountLog(IsStatusFetch)

\* mutant of LoopContinues: a cancelled job is polled on
LoopContinues_CancelledIgnored(s) == s \notin {"succeeded", "failed"}

\* while status not in ("succeeded", "failed", "cancelled")
LoopContinues(s) == s \notin Terminal

\* mutant of AfterLoopTest: the result is fetched after any terminal status
AfterLoopTest_AnyTerminal(s, data) ==
    IF s \notin {"succeeded", "failed", "cancelled"} THEN "sleep"
    ELSE IF Get(data.generations, <<>>) # <<>> THEN "get_content"
    ELSE "notify_run_completed"

\* where control goes once `status` holds s: the loop body, or the code after
\* the loop (result extraction, then the trailing notify)
AfterLoopTest(s, data) ==
    IF LoopContinues(s) THEN "sleep"
    ELSE IF s = "succeeded" /\ Get(data.generations, <<>>) # <<>> THEN "get_content"
    ELSE "notify_run_completed"

SoraStart ==
    /\ tool = "sora_video_generation" /\ pc = "start"
    /\ log' = Append(log, Notify("sora_video_generation", "run in_progress",
                                 <<"Starting video generation">>))
    /\ Goto("notify_executing")
    /\ UNCHANGED <<sched, Args, ImageLocals, SoraLocals>>

SoraExecuting ==
    /\ tool = "sora_video_generation" /\ pc = "notify_executing"
    /\ log' = Append(log, Notify("sora_video_generation", "step in_progress",
                                 <<"Executing Model">>))
    /\ Goto("post")
    /\ UNCHANGED <<sched, Args, ImageLocals, SoraLocals>>

\* mutant of CreationRejected: any 2xx answer counts as created
CreationRejected_Non2xx(code) == code >= 300

\* response.status != 201
CreationRejected(code) == code # 201

\* mutant of StatusFetchRejected: the status of the answer is not looked at
StatusFetchRejected_Never(code) == FALSE

\* status_response.status != 200
StatusFetchRejected(code) == code # 200

\* mutant of ContentFetchRejected: the status of the answer is not looked at
ContentFetchRejected_Never(code) == FALSE

\* video_response.status != 200
ContentFetchRejected(code) == code # 200

\* the HTTP status the request just made was answered with
LastCode == log[Len(log)].code

\* async with session.post(create_url, headers=headers, json=body) as response
SoraPost ==
    /\ tool = "sora_video_generation" /\ pc = "post"
    /\ \E code \in {200, 201, 400} :
        log' = Append(log, Call("post", code, <<>>, <<>>))
    /\ Goto("post_body")
    /\ UNCHANGED <<sched, Args, ImageLocals, SoraLocals>>

\* await response.json(): the error body of a rejected creation, else the job
SoraPostBody ==
    /\ tool = "sora_video_generation" /\ pc = "post_body"
    /\ \E id \in Opt(JobIds), detail \in Opt(ErrMsgs) :
        IF CreationRejected(LastCode)
        THEN /\ error_response' = [detail |-> detail, error |-> <<>>]
             /\ Goto("notify_create_failed")
             /\ UNCHANGED job_id
        ELSE /\ UNCHANGED error_response
             /\ IF id = <<>>
                THEN Raise("KeyError") /\ UNCHANGED job_id
                ELSE Goto("notify_job_created") /\ job_id' = id[1]
    /\ UNCHANGED <<sched, Args, log, ImageLocals, status, status_data, video_blob>>

SoraNotifyCreateFailed ==
    /\ tool = "sora_video_generation" /\ pc = "notify_create_failed"
    /\ log' = Append(log, Notify("sora_video_generation", "step failed",
                                 <<Get(error_response.detail, "Unknown error")>>))
    /\ Return(<<>>)
    /\ UNCHANGED <<sched, Args, ImageLocals, SoraLocals>>

\* mutant of SoraNotifyJobCreated: the loop starts from "queued", the first
\* status the provider is expected to report
SoraNotifyJobCreated_QueuedSentinel ==
    /\ tool = "sora_video_generation" /\ pc = "notify_job_created"
    /\ log' = Append(log, Notify("sora_video_generation", "step_in_progress",
                                 <<"Video generation job created: ", job_id>>))
    /\ status' = "queued"
    /\ status_data' = [status |-> <<>>, generations |-> <<>>]
    /\ Goto(AfterLoopTest(status', status_data'))
    /\ UNCHANGED <<sched, Args, ImageLocals, error_response, job_id, video_blob>>

\* notify "job created", status = "started", status_data = {}, first loop test
SoraNotifyJobCreated ==
    /\ tool = "sora_video_generation" /\ pc = "notify_job_created"
    /\ log' = Append(log, Notify("sora_video_generation", "step_in_progress",
                                 <<"Video generation job created: ", job_id>>))
    /\ status' = "started"
    /\ status_data' = [status |-> <<>>, generations |-> <<>>]
    /\ Goto(AfterLoopTest(status', status_data'))
    /\ UNCHANGED <<sched, Args, ImageLocals, error_response, job_id, video_blob>>

\* mutant of SoraSleep: the loop fetches again without waiting
SoraSleep_Skipped ==
    /\ tool = "sora_video_generation" /\ pc = "sleep"
    /\ Goto("get_status")
    /\ UNCHANGED <<sched, Args, log, ImageLocals, SoraLocals>>

\* await asyncio.sleep(5)
SoraSleep ==
    /\ tool = "sora_video_generation" /\ pc = "sleep"
    /\ log' = Append(log, Call("sleep", 0, <<>>, <<>>))
    /\ Goto("get_status")
    /\ UNCHANGED <<sched, Args, ImageLocals, SoraLocals>>

\* status != status_data["status"]
StatusChanged(old, new) == old # new

\* async with session.get(status_url, headers=headers) as status_response;
\* the model follows the loop for PollBound fetches
SoraGetStatus ==
    /\ tool = "sora_video_generation" /\ pc = "get_status"
    /\ StatusFetches < PollBound
    /\ \E code \in {200, 500} :
        log' = Append(log, Call("get_status", code, <<>>, <<>>))
    /\ Goto("status_body")
    /\ UNCHANGED <<sched, Args, ImageLocals, SoraLocals>>

\* await status_response.json(): the error body of a rejected fetch, else the
\* status payload, whose status completes the log entry of the fetch
SoraStatusBody ==
    /\ tool = "sora_video_generation" /\ pc = "status_body"
    /\ \E st \in Opt(Statuses), gens \in Opt(GenLists), err \in Opt(ErrMsgs) :
        IF StatusFetchRejected(LastCode)
        THEN /\ error_response' = [detail |-> <<>>, error |-> err]
             /\ Goto("notify_poll_failed")
             /\ UNCHANGED <<log, status, status_data>>
        ELSE /\ log' = [log EXCEPT ![Len(log)].info = st]
             /\ status_data' = [status |-> st, generations |-> gens]
             /\ UNCHANGED error_response
             /\ IF st = <<>>
                THEN Raise("KeyError") /\ UNCHANGED status
                ELSE IF StatusChanged(status, st[1])
                THEN Goto("notify_status") /\ UNCHANGED status
                ELSE /\ status' = st[1]
                     /\ Goto(AfterLoopTest(status', status_data'))
    /\ UNCHANGED <<sched, Args, ImageLocals, job_id, video_blob>>

SoraNotifyPollFailed ==
    /\ tool = "sora_video_generation" /\ pc = "notify_poll_failed"
    /\ log' = Append(log, Notify("sora_video_generation", "step failed",
                                 <<Get(error_response.error, "Unknown error")>>))
    /\ Return(<<>>)
    /\ UNCHANGED <<sched, Args, ImageLocals, SoraLocals>>

SoraNotifyStatus ==
    /\ tool = "sora_video_generation" /\ pc = "notify_status"
    /\ log' = Append(log, Notify("sora_video_generation", "step in_progress",
                                 <<"job status: ", status_data.status[1]>>))
    /\ status' = status_data.status[1]
    /\ Goto(AfterLoopTest(status', status_data))
    /\ UNCHANGED <<sched, Args, ImageLocals, error_response, job_id, status_data, video_blob>>

\* mutant of SoraGetContent: the content of the last generation is fetched
SoraGetContent_LastGeneration ==
    /\ tool = "sora_video_generation" /\ pc = "get_content"
    /\ \E code \in {200, 404} :
        /\ log' = Append(log, Call("get_content", code,
                                   <<Get(status_data.generations, <<>>)[
                                         Len(Get(status_data.generations, <<>>))]>>,
                                   <<>>))
        /\ Goto(IF ContentFetchRejected(code) THEN "content_body" ELSE "notify_moving")
    /\ UNCHANGED <<sched, Args, ImageLocals, SoraLocals>>

\* async with session.get(video_url, ...) as video_response, for generations[0]
SoraGetContent ==
    /\ tool = "sora_video_generation" /\ pc = "get_content"
    /\ \E code \in {200, 404} :
        /\ log' = Append(log, Call("get_content", code,
                                   <<Get(status_data.generations, <<>>)[1]>>, <<>>))
        /\ Goto(IF ContentFetchRejected(code) THEN "content_body" ELSE "notify_moving")
    /\ UNCHANGED <<sched, Args, ImageLocals, SoraLocals>>

\* error_response = await video_response.json(), on a rejected content fetch
SoraContentBody ==
    /\ tool = "sora_video_generation" /\ pc = "content_body"
    /\ \E err \in Opt(ErrMsgs) :
        error_response' = [detail |-> <<>>, error |-> err]
    /\ Goto("notify_content_failed")
    /\ UNCHANGED <<sched, Args, log, ImageLocals, job_id, status, status_data, video_blob>>

SoraNotifyContentFailed ==
    /\ tool = "sora_video_generation" /\ pc = "notify_content_failed"
    /\ log' = Append(log, Notify("video_generation", "step failed",
                                 <<Get(error_response.error, "Unknown error")>>))
    /\ Return(<<>>)
    /\ UNCHANGED <<sched, Args, ImageLocals, SoraLocals>>

SoraNotifyMoving ==
    /\ tool = "sora_video_generation" /\ pc = "notify_moving"
    /\ log' = Append(log, Notify("sora_video_generation", "step in_progress",
                                 <<"Moving video to storage">>))
    /\ Goto("save_video")
    /\ UNCHANGED <<sched, Args, ImageLocals, SoraLocals>>

\* video_blob = await save_video_blob(video_response.content)
SoraSaveVideo ==
    /\ tool = "sora_video_generation" /\ pc = "save_video"
    /\ \E stored \in BOOLEAN :
        IF stored
        THEN /\ log' = Append(log, Call("persist", 0, <<"video">>, <<NextBlob>>))
             /\ video_blob' = NextBlob
             /\ Goto("notify_step_completed")
        ELSE /\ log' = Append(log, Call("persist", 0, <<"video">>, <<>>))
             /\ Raise("persistence")
             /\ UNCHANGED video_blob
    /\ UNCHANGED <<sched, Args, ImageLocals, error_response, job_id, status, status_data>>

SoraNotifyStepCompleted ==
    /\ tool = "sora_video_generation" /\ pc = "notify_step_completed"
    /\ log' = Append(log, NotifyContent("sora_video_generation", "step completed",
                                        video_blob))
    /\ Goto("notify_run_completed")
    /\ UNCHANGED <<sched, Args, ImageLocals, SoraLocals>>

\* return [""]
SoraResult == <<"">>

SoraNotifyRunCompleted ==
    /\ tool = "sora_video_generation" /\ pc = "notify_run_completed"
    /\ log' = Append(log, Notify("sora_video_generation", "run completed",
                                 <<"Video generation complete">>))
    /\ Return(SoraResult)
    /\ UNCHANGED <<sched, Args, ImageLocals, SoraLocals>>

SoraNext ==
    \/ SoraStart
    \/ SoraExecuting
    \/ SoraPost
    \/ SoraPostBody
    \/ SoraNotifyCreateFailed
    \/ SoraNotifyJobCreated
    \/ SoraSleep
    \/ SoraGetStatus
    \/ SoraStatusBody
    \/ SoraNotifyPollFailed
    \/ SoraNotifyStatus
    \/ SoraGetContent
    \/ SoraContentBody
    \/ SoraNotifyContentFailed
    \/ SoraNotifyMoving
    \/ SoraSaveVideo
    \/ SoraNotifyStepCompleted
    \/ SoraNotifyRunCompleted

----------------------------------------------------------------------------
(* Helpers of the image tools *)

\* image.startswith("data:image/jpeg;base64,")
StartsWithPrefix(img) == img # <<>> /\ img[1] = Prefix

IsNotPrefix(tok) == tok # Prefix

\* image.replace("data:image/jpeg;base64,", "")
StripPrefix(img) == SelectSeq(img, IsNotPrefix)

\* the string left of the image argument once the prefix is removed (the
\* argument holds at most one payload token)
Payload(img) == IF StripPrefix(img) = <<>> THEN "" ELSE StripPrefix(img)[1]

\* the number of characters of a payload that belong to the base64 alphabet
\* (b64decode drops the others, such as "-")
DataChars(tok) ==
    CASE tok = "img-a" -> 4
      [] tok = "placeholder" -> 11
      [] OTHER -> 0

\* base64.b64decode(image) raises binascii.Error unless the data characters
\* come in groups of four
DecodeFails(img) == DataChars(Payload(img)) % 4 # 0

\* mutant of HasError: the "error" key is not looked at
HasError_Never(resp) == FALSE

\* "error" in response
HasError(resp) == resp.error # <<>>

\* some item["b64_json"] raises KeyError
ItemKeyError(data) == \E i \in DOMAIN data : data[i] = <<>>

HasPayload(item) == item # <<>> /\ item[1] # ""
FieldOf(item) == item[1]
RECURSIVE MapField(_)
MapField(items) ==
    IF items = <<>> THEN <<>> ELSE <<FieldOf(Head(items))>> \o MapField(Tail(items))

\* mutant of Base64Images: empty "b64_json" values are not dropped
Base64Images_Unfiltered(data) == MapField(data)

\* [item["b64_json"] for item in response["data"] if item["b64_json"]]
Base64Images(data) == MapField(SelectSeq(data, HasPayload))

\* the async-for over save_image_blobs: the loop body runs while the generator
\* has a payload left, then control reaches the run-completed notify
AfterBlobLoop(pending) ==
    IF pending = <<>> THEN "notify_run_completed" ELSE "save_image"

\* mutant of SaveNextImage: a fault of the store is caught and the names
\* collected so far are returned
SaveNextImage_Swallowed ==
    /\ base64_images # <<>>
    /\ \E stored \in BOOLEAN :
        IF stored
        THEN /\ log' = Append(log, Call("persist", 0, <<Head(base64_images)>>,
                                        <<NextBlob>>))
             /\ images' = Append(images, NextBlob)
             /\ base64_images' = Tail(base64_images)
             /\ Goto("notify_step_completed")
        ELSE /\ log' = Append(log, Call("persist", 0, <<Head(base64_images)>>, <<>>))
             /\ Return(images)
             /\ UNCHANGED <<images, base64_images>>

\* mutant of SaveNextImage: every payload is stored before the first name is
\* announced
SaveNextImage_Batched ==
    /\ base64_images # <<>>
    /\ \E stored \in BOOLEAN :
        IF stored
        THEN /\ log' = Append(log, Call("persist", 0, <<Head(base64_images)>>,
                                        <<NextBlob>>))
             /\ images' = Append(images, NextBlob)
             /\ base64_images' = Tail(base64_images)
             /\ Goto(IF base64_images' = <<>> THEN "notify_step_completed"
                     ELSE "save_image")
        ELSE /\ log' = Append(log, Call("persist", 0, <<Head(base64_images)>>, <<>>))
             /\ Raise("persistence")
             /\ UNCHANGED <<images, base64_images>>

\* save_image_blobs yields the name of the next stored payload, or the store faults;
\* images.append(blob_name)
SaveNextImage ==
    /\ base64_images # <<>>
    /\ \E stored \in BOOLEAN :
        IF stored
        THEN /\ log' = Append(log, Call("persist", 0, <<Head(base64_images)>>,
                                        <<NextBlob>>))
             /\ images' = Append(images, NextBlob)
             /\ base64_images' = Tail(base64_images)
             /\ Goto("notify_step_completed")
        ELSE /\ log' = Append(log, Call("persist", 0, <<Head(base64_images)>>, <<>>))
             /\ Raise("persistence")
             /\ UNCHANGED <<images, base64_images>>

\* if not response["data"]: return []   (response["data"] raises when absent)
\* otherwise control reaches the "storing" notify
AfterFetchingNotify ==
    IF response.data = <<>> THEN Raise("KeyError")
    ELSE IF response.data[1] = <<>> THEN Return(<<>>)
    ELSE Goto("notify_storing")

\* base64_images = [...]; images = []; then the async-for starts
StartBlobLoop ==
    IF ItemKeyError(response.data[1])
    THEN Raise("KeyError") /\ UNCHANGED <<base64_images, images>>
    ELSE /\ base64_images' = Base64Images(response.data[1])
         /\ images' = <<>>
         /\ Goto(AfterBlobLoop(base64_images'))

----------------------------------------------------------------------------
(* gpt_image_generation *)

GenStart ==
    /\ tool = "gpt_image_generation" /\ pc = "start"
    /\ log' = Append(log, Notify("image_generation", "run in_progress",
                                 <<"Starting image generation">>))
    /\ Goto("notify_executing")
    /\ UNCHANGED <<sched, Args, ImageLocals, SoraLocals>>

GenExecuting ==
    /\ tool = "gpt_image_generation" /\ pc = "notify_executing"
    /\ log' = Append(log, Notify("image_generation", "step in_progress",
                                 <<"Executing Model">>))
    /\ Goto("post")
    /\ UNCHANGED <<sched, Args, ImageLocals, SoraLocals>>

\* async with post_request(endpoint, ...) as response
GenPost ==
    /\ tool = "gpt_image_generation" /\ pc = "post"
    /\ \E resp \in Responses :
        /\ response' = resp
        /\ log' = Append(log, Call("post", 0, <<>>, <<>>))
        /\ Goto(IF HasError(resp) THEN "notify_failed" ELSE "notify_fetching")
    /\ UNCHANGED <<sched, Args, base64_images, images, SoraLocals>>

GenNotifyFailed ==
    /\ tool = "gpt_image_generation" /\ pc = "notify_failed"
    /\ log' = Append(log, Notify("image_generation", "step failed", response.error))
    /\ Return(<<>>)
    /\ UNCHANGED <<sched, Args, ImageLocals, SoraLocals>>

GenNotifyFetching ==
    /\ tool = "gpt_image_generation" /\ pc = "notify_fetching"
    /\ log' = Append(log, Notify("image_generation", "step in_progress",
                         <<IF n > 1 THEN "fetching images" ELSE "fetching image">>))
    /\ AfterFetchingNotify
    /\ UNCHANGED <<sched, Args, ImageLocals, SoraLocals>>

GenNotifyStoring ==
    /\ tool = "gpt_image_generation" /\ pc = "notify_storing"
    /\ log' = Append(log, Notify("image_generation", "step in_progress",
                         <<IF n > 1 THEN "storing images" ELSE "storing image">>))
    /\ StartBlobLoop
    /\ UNCHANGED <<sched, Args, response, SoraLocals>>

GenSaveImage ==
    /\ tool = "gpt_image_generation" /\ pc = "save_image"
    /\ SaveNextImage
    /\ UNCHANGED <<sched, Args, response, SoraLocals>>

GenNotifyStepCompleted ==
    /\ tool = "gpt_image_generation" /\ pc = "notify_step_completed"
    /\ log' = Append(log, NotifyContent("image_generation", "step completed",
                                        images[Len(images)]))
    /\ Goto(AfterBlobLoop(base64_images))
    /\ UNCHANGED <<sched, Args, ImageLocals, SoraLocals>>

GenNotifyRunCompleted ==
    /\ tool = "gpt_image_generation" /\ pc = "notify_run_completed"
    /\ log' = Append(log, Notify("image_generation", "run completed",
                                 <<"Image generation complete">>))
    /\ Return(images)
    /\ UNCHANGED <<sched, Args, ImageLocals, SoraLocals>>

GenNext ==
    \/ GenStart
    \/ GenExecuting
    \/ GenPost
    \/ GenNotifyFailed
    \/ GenNotifyFetching
    \/ GenNotifyStoring
    \/ GenSaveImage
    \/ GenNotifyStepCompleted
    \/ GenNotifyRunCompleted

----------------------------------------------------------------------------
(* gpt_image_edit *)

EditStart ==
    /\ tool = "gpt_image_edit" /\ pc = "start"
    /\ log' = Append(log, Notify("image_edit", "run in_progress",
                                 <<"Starting image edit">>))
    /\ Goto("notify_executing")
    /\ UNCHANGED <<sched, Args, ImageLocals, SoraLocals>>

EditExecuting ==
    /\ tool = "gpt_image_edit" /\ pc = "notify_executing"
    /\ log' = Append(log, Notify("image_edit", "step in_progress",
                                 <<"Executing Model">>))
    /\ Goto("post")
    /\ UNCHANGED <<sched, Args, ImageLocals, SoraLocals>>

\* the prefix is stripped, the image is decoded into the form, then
\* async with post_request(endpoint, ..., data=form_data) as response
EditPost ==
    /\ tool = "gpt_image_edit" /\ pc = "post"
    /\ image' = IF StartsWithPrefix(image) THEN StripPrefix(image) ELSE image
    /\ IF DecodeFails(image')
       THEN /\ Raise("binascii.Error")
            /\ UNCHANGED <<log, response>>
       ELSE \E resp \in Responses :
               /\ response' = resp
               /\ log' = Append(log, Call("post", 0, image', <<>>))
               /\ Goto(IF HasError(resp) THEN "notify_failed" ELSE "notify_fetching")
    /\ UNCHANGED <<sched, tool, n, base64_images, images, SoraLocals>>

EditNotifyFailed ==
    /\ tool = "gpt_image_edit" /\ pc = "notify_failed"
    /\ log' = Append(log, Notify("image_generation", "step failed", response.error))
    /\ Return(<<>>)
    /\ UNCHANGED <<sched, Args, ImageLocals, SoraLocals>>

EditNotifyFetching ==
    /\ tool = "gpt_image_edit" /\ pc = "notify_fetching"
    /\ log' = Append(log, Notify("image_edit", "step in_progress", <<"fetching image">>))
    /\ AfterFetchingNotify
    /\ UNCHANGED <<sched, Args, ImageLocals, SoraLocals>>

EditNotifyStoring ==
    /\ tool = "gpt_image_edit" /\ pc = "notify_storing"
    /\ log' = Append(log, Notify("image_edit", "step in_progress", <<"storing image">>))
    /\ StartBlobLoop
    /\ UNCHANGED <<sched, Args, response, SoraLocals>>

EditSaveImage ==
    /\ tool = "gpt_image_edit" /\ pc = "save_image"
    /\ SaveNextImage
    /\ UNCHANGED <<sched, Args, response, SoraLocals>>

EditNotifyStepCompleted ==
    /\ tool = "gpt_image_edit" /\ pc = "notify_step_completed"
    /\ log' = Append(log, NotifyContent("image_edit", "step completed",
                                        images[Len(images)]))
    /\ Goto(AfterBlobLoop(base64_images))
    /\ UNCHANGED <<sched, Args, ImageLocals, SoraLocals>>

EditNotifyRunCompleted ==
    /\ tool = "gpt_image_edit" /\ pc = "notify_run_completed"
    /\ log' = Append(log, Notify("image_edit", "run completed",
                                 <<"Image edit complete">>))
    /\ Return(images)
    /\ UNCHANGED <<sched, Args, ImageLocals, SoraLocals>>

EditNext ==
    \/ EditStart
    \/ EditExecuting
    \/ EditPost
    \/ EditNotifyFailed
    \/ EditNotifyFetching
    \/ EditNotifyStoring
    \/ EditSaveImage
    \/ EditNotifyStepCompleted
    \/ EditNotifyRunCompleted

----------------------------------------------------------------------------
(* gpt_image_capture *)

CapStart ==
    /\ tool = "gpt_image_capture" /\ pc = "start"
    /\ log' = Append(log, Notify("image_capture", "run_in_progress",
                                 <<"Starting image description generation">>))
    /\ Goto("describe")
    /\ UNCHANGED <<sched, Args, ImageLocals, SoraLocals>>

\* the prefix is added when absent, then
\* description = await prompty.execute_async(description_prompty, ...)
CapDescribe ==
    /\ tool = "gpt_image_capture" /\ pc = "describe"
    /\ image' = IF StartsWithPrefix(image) THEN image ELSE <<Prefix>> \o image
    /\ log' = Append(log, Call("describe", 0, image', <<>>))
    /\ Goto("notify_persisting")
    /\ UNCHANGED <<sched, tool, n, ImageLocals, SoraLocals>>

\* the notify, then images = [] and the async-for over
\* save_image_blobs([image.replace("data:image/jpeg;base64,", "")]) starts
CapNotifyPersisting ==
    /\ tool = "gpt_image_capture" /\ pc = "notify_persisting"
    /\ log' = Append(log, Notify("image_capture", "run_in_progress",
                                 <<"Persisting image and description">>))
    /\ base64_images' = <<Payload(image)>>
    /\ images' = <<>>
    /\ Goto(AfterBlobLoop(base64_images'))
    /\ UNCHANGED <<sched, Args, response, SoraLocals>>

CapSaveImage ==
    /\ tool = "gpt_image_capture" /\ pc = "save_image"
    /\ SaveNextImage
    /\ UNCHANGED <<sched, Args, response, SoraLocals>>

CapNotifyStepCompleted ==
    /\ tool = "gpt_image_capture" /\ pc = "notify_step_completed"
    /\ log' = Append(log, NotifyContent("image_capture", "step completed",
                                        images[Len(images)]))
    /\ Goto(AfterBlobLoop(base64_images))
    /\ UNCHANGED <<sched, Args, ImageLocals, SoraLocals>>

CapNotifyRunCompleted ==
    /\ tool = "gpt_image_capture" /\ pc = "notify_run_completed"
    /\ log' = Append(log, Notify("image_capture", "run completed",
                                 <<"Image capture complete">>))
    /\ Return(images)
    /\ UNCHANGED <<sched, Args, ImageLocals, SoraLocals>>

CapNext ==
    \/ CapStart
    \/ CapDescribe
    \/ CapNotifyPersisting
    \/ CapSaveImage
    \/ CapNotifyStepCompleted
    \/ CapNotifyRunCompleted

----------------------------------------------------------------------------

Next ==
    \/ SoraNext
    \/ GenNext
    \/ EditNext
    \/ CapNext

Spec == Init /\ [][Next]_vars

\* The event loop resumes a coroutine once what it awaits has completed.
FairSpec == Spec /\ WF_vars(Next)

----------------------------------------------------------------------------
(* Several invocations under one event loop *)

\* the invocations an orchestrator dispatches together
Procs == {1, 2}

\* mutant of LocalNames: the last observed status is a module-level name
LocalNames_StatusGlobal ==
    {"tool", "n", "image", "pc", "log", "response", "error_response", "job_id",
     "status_data", "base64_images", "images", "video_blob", "ret", "fault"}

\* the names bound in a coroutine's own frame: its parameters, its local
\* variables, its position and its result.  The tools declare no `global` and
\* assign no module-level name.
LocalNames ==
    {"tool", "n", "image", "pc", "log", "response", "error_response", "job_id",
     "status", "status_data", "base64_images", "images", "video_blob", "ret",
     "fault"}

CurFrame ==
    [tool |-> tool, n |-> n, image |-> image, pc |-> pc, log |-> log,
     response |-> response, error_response |-> error_response,
     job_id |-> job_id, status |-> status, status_data |-> status_data,
     base64_images |-> base64_images, images |-> images,
     video_blob |-> video_blob, ret |-> ret, fault |-> fault]

\* the value a name has once the loop resumes another coroutine: the one in
\* that coroutine's frame when the name is local, the one left behind otherwise
Resumed(name, saved, left) == IF name \in LocalNames THEN saved ELSE left

\* at an await the event loop suspends the running coroutine and resumes q
Switch ==
    \E q \in DOMAIN parked :
        /\ cur' = q
        /\ parked' = [p \in (DOMAIN parked \ {q}) \cup {cur} |->
                         IF p = cur THEN CurFrame ELSE parked[p]]
        /\ tool' = Resumed("tool", parked[q].tool, tool)
        /\ n' = Resumed("n", parked[q].n, n)
        /\ image' = Resumed("image", parked[q].image, image)
        /\ pc' = Resumed("pc", parked[q].pc, pc)
        /\ log' = Resumed("log", parked[q].log, log)
        /\ response' = Resumed("response", parked[q].response, response)
        /\ error_response' = Resumed("error_response", parked[q].error_response,
                                     error_response)
        /\ job_id' = Resumed("job_id", parked[q].job_id, job_id)
        /\ status' = Resumed("status", parked[q].status, status)
        /\ status_data' = Resumed("status_data", parked[q].status_data, status_data)
        /\ base64_images' = Resumed("base64_images", parked[q].base64_images,
                                    base64_images)
        /\ images' = Resumed("images", parked[q].images, images)
        /\ video_blob' = Resumed("video_blob", parked[q].video_blob, video_blob)
        /\ ret' = Resumed("ret", parked[q].ret, ret)
        /\ fault' = Resumed("fault", parked[q].fault, fault)

ConcInit ==
    /\ \E f \in InitFrames : WellFormed(f) /\ f.n # 2 /\ Enter(f)
    /\ cur = 1
    /\ parked \in [Procs \ {1} -> {f \in InitFrames : WellFormed(f) /\ f.n # 2}]

ConcNext ==
    \/ Next
    \/ Switch

ConcSpec == ConcInit /\ [][ConcNext]_vars

----------------------------------------------------------------------------
(* Observations on the log *)

IsRunCompleted(e) == IsEvent(e) /\ e.status = "run completed"
IsStepFailed(e) == IsEvent(e) /\ e.status = "step failed"
IsStepCompleted(e) == IsEvent(e) /\ e.status = "step completed"
IsStatusEvent(e) == IsEvent(e) /\ Len(e.info) = 2 /\ e.info[1] = "job status: "
IsSleep(e) == e.op = "sleep"
IsContentFetch(e) == e.op = "get_content"
IsPost(e) == e.op = "post"
IsCall(e) == ~IsEvent(e)
IsAnsweredPoll(e) == e.op = "get_status" /\ e.code = 200 /\ e.info # <<>>

NumRunCompleted == CountLog(IsRunCompleted)
NumStepFailed == CountLog(IsStepFailed)
NumStepCompleted == CountLog(IsStepCompleted)
NumStatusEvents == CountLog(IsStatusEvent)

Finished == pc \in {"returned", "raised"}

Last(seq) == seq[Len(seq)]

\* the statuses the status fetches reported, in order
Polled == [i \in DOMAIN SelectSeq(log, IsAnsweredPoll) |->
              SelectSeq(log, IsAnsweredPoll)[i].info[1]]

\* the references carried by the step-completed events, in order
AnnouncedRefs == [i \in DOMAIN SelectSeq(log, IsStepCompleted) |->
                     SelectSeq(log, IsStepCompleted)[i].refs[1]]

IsStored(e) == IsPersist(e) /\ e.refs # <<>>
\* the references the persistence adapter returned, and the payloads it
\* was handed, in order
StoredRefs == [i \in DOMAIN SelectSeq(log, IsStored) |->
                  SelectSeq(log, IsStored)[i].refs[1]]
HandedPayloads == [i \in DOMAIN SelectSeq(log, IsPersist) |->
                      SelectSeq(log, IsPersist)[i].info[1]]

Distinct(seq) == \A i, j \in DOMAIN seq : i # j => seq[i] # seq[j]

\* positions of seq whose value differs from the value before it, the value
\* before the first one being `first`
ChangesFrom(first, seq) ==
    Cardinality({i \in DOMAIN seq :
                    seq[i] # (IF i = 1 THEN first ELSE seq[i - 1])})

\* positions of seq, from the second on, whose value differs from the one before
ChangesWithin(seq) ==
    Cardinality({i \in DOMAIN seq : i > 1 /\ seq[i] # seq[i - 1]})

IsSora == tool = "sora_video_generation"
IsImageTool == tool \in {"gpt_image_generation", "gpt_image_edit"}

----------------------------------------------------------------------------
(* Claims *)

\* C1: on every path on which a tool returns, the event stream holds exactly
\* one "run completed" event or a "step failed" event precedes the return.
\* Fails: gpt_image_generation and gpt_image_edit return [] on an empty "data"
\* list after emitting neither.
C1_TerminalEventBeforeReturn ==
    pc = "returned" => (NumRunCompleted = 1 \/ NumStepFailed >= 1)

\* C2: the number of status events equals the number of polled statuses that
\* differ from the polled status before them; the sequence queued, queued,
\* running, running, succeeded gives exactly 2.
\* Fails: the first polled status is compared with the initial value "started"
\* of `status`, so the first poll is reported as a change too.
C2_ChangesBetweenPolls ==
    (IsSora /\ pc = "returned") =>
        /\ NumStatusEvents = ChangesWithin(Polled)
        /\ Polled = <<"queued", "queued", "running", "running", "succeeded">>
               => NumStatusEvents = 2

\* C3: once the polled status is "failed" or "cancelled", the tool emits exactly
\* one "step failed", no "step completed", no "run completed", and returns [].
\* Fails: the code emits "run completed" and returns [""].
C3_FailedJobReportsFailure ==
    (IsSora /\ pc = "returned" /\ Polled # <<>>
     /\ Last(Polled) \in {"failed", "cancelled"}) =>
        /\ NumStepFailed = 1
        /\ NumStepCompleted = 0
        /\ NumRunCompleted = 0
        /\ ret = <<>>

\* C4: a job that succeeds with one generation whose content fetch returns 200
\* makes one persistence call, emits one "step completed" carrying the persisted
\* reference, then "run completed", and returns the list holding that reference.
\* Fails: the code returns [""].
C4_SucceededJobReturnsReference ==
    (IsSora /\ pc = "returned" /\ Polled # <<>> /\ Last(Polled) = "succeeded"
     /\ Len(Get(status_data.generations, <<>>)) = 1
     /\ \E i \in DOMAIN log : IsContentFetch(log[i]) /\ log[i].code = 200) =>
        /\ PersistCalls = 1
        /\ Len(StoredRefs) = 1
        /\ AnnouncedRefs = StoredRefs
        /\ IsStepCompleted(log[Len(log) - 1])
        /\ IsRunCompleted(Last(log))
        /\ ret = StoredRefs

\* the "b64_json" values of the entries of data that are not empty, in order
RECURSIVE NonEmptyPayloads(_)
NonEmptyPayloads(data) ==
    IF data = <<>> THEN <<>>
    ELSE (IF Head(data) \in {<<>>, <<"">>} THEN <<>> ELSE <<Head(data)[1]>>)
         \o NonEmptyPayloads(Tail(data))

SuccessfulImageReturn ==
    /\ IsImageTool /\ pc = "returned"
    /\ response.error = <<>> /\ response.data # <<>>

\* C5 (as stated): a successful image response with N entries in "data" leads to
\* exactly N persistence calls and N "step completed" events.
C5_OnePerDataEntry ==
    SuccessfulImageReturn =>
        /\ PersistCalls = Len(response.data[1])
        /\ NumStepCompleted = Len(response.data[1])

\* C5 (amended): with N the number of entries of "data" whose "b64_json" is not
\* empty, exactly those N payloads are handed to persistence, in the order of
\* the data list, and exactly N "step completed" events are emitted, each
\* carrying one distinct persisted reference, in the same order.
C5_OnePerNonEmptyEntry ==
    SuccessfulImageReturn =>
        /\ HandedPayloads = NonEmptyPayloads(response.data[1])
        /\ NumStepCompleted = Len(NonEmptyPayloads(response.data[1]))
        /\ AnnouncedRefs = StoredRefs
        /\ Len(StoredRefs) = PersistCalls
        /\ Distinct(AnnouncedRefs)

C5_Witness ==
    /\ SuccessfulImageReturn
    /\ Len(response.data[1]) = 2
    /\ HandedPayloads = <<"img-b", "img-a">>
    /\ NumStepCompleted = 2

RejectedCreation == \E i \in DOMAIN log : IsPost(log[i]) /\ log[i].code # 201

\* C6: when the job-creation response status is not 201, sora_video_generation
\* makes no polling delay and no status fetch, emits exactly one "step failed"
\* and returns [].
C6_RejectedCreationShortCircuits ==
    (IsSora /\ RejectedCreation) =>
        /\ pc \in {"post_body", "notify_create_failed", "returned"}
        /\ CountLog(IsSleep) = 0
        /\ StatusFetches = 0
        /\ CountLog(IsCall) = 1
        /\ pc = "returned" =>
              /\ NumStepFailed = 1
              /\ IsStepFailed(Last(log))
              /\ ret = <<>>

C6_Witness ==
    /\ IsSora /\ RejectedCreation /\ pc = "returned"
    /\ NumStepFailed = 1

EmptyImageResult ==
    /\ IsImageTool
    /\ \E i \in DOMAIN log : IsPost(log[i])
    /\ response.error = <<>> /\ response.data = <<<<>>>>

EmptyVideoResult ==
    /\ IsSora /\ Polled # <<>> /\ Last(Polled) = "succeeded"
    /\ Get(status_data.generations, <<>>) = <<>>

\* C7: an empty result set from a successful provider call yields an empty
\* return list and no "step completed" event, without raising.
\* Fails: sora_video_generation returns [""] when the job succeeded with no
\* generations.
C7_EmptyResultReturnsEmptyList ==
    (Finished /\ (EmptyImageResult \/ EmptyVideoResult)) =>
        /\ pc = "returned"
        /\ ret = <<>>
        /\ NumStepCompleted = 0

ErrorResponse ==
    /\ IsImageTool
    /\ \E i \in DOMAIN log : IsPost(log[i])
    /\ response.error # <<>>

\* C8: when the image request returns a response containing an error, the tool
\* emits, as the next thing it does, exactly one "step failed" carrying the
\* provider's error, makes no persistence call and no further external call,
\* emits no "step completed" and no "run completed", and returns [].
C8_ErrorResponseFails ==
    ErrorResponse =>
        /\ pc \in {"notify_failed", "returned"}
        /\ CountLog(IsCall) = 1
        /\ PersistCalls = 0
        /\ NumStepCompleted = 0
        /\ NumRunCompleted = 0
        /\ pc = "notify_failed" => IsPost(Last(log)) /\ NumStepFailed = 0
        /\ pc = "returned" =>
              /\ IsPost(log[Len(log) - 1])
              /\ IsStepFailed(Last(log))
              /\ Last(log).info = response.error
              /\ NumStepFailed = 1
              /\ ret = <<>>

C8_Witness ==
    /\ ErrorResponse /\ tool = "gpt_image_edit" /\ pc = "returned"
    /\ Last(log).info = <<"bad request">>

RejectedPoll(i) == IsStatusFetch(log[i]) /\ log[i].code # 200

\* C9: when a status fetch returns a non-200 response, sora_video_generation
\* emits exactly one "step failed", makes no further status fetch, no content
\* fetch and no persistence call, and returns [].
C9_RejectedPollEndsLoop ==
    IsSora =>
        \A i \in DOMAIN log :
            RejectedPoll(i) =>
                /\ pc \in {"status_body", "notify_poll_failed", "returned"}
                /\ \A j \in DOMAIN log : j > i => ~IsCall(log[j])
                /\ CountLog(IsContentFetch) = 0
                /\ PersistCalls = 0
                /\ pc = "returned" =>
                      /\ NumStepFailed = 1
                      /\ IsStepFailed(Last(log))
                      /\ Len(log) = i + 1
                      /\ ret = <<>>

C9_Witness ==
    /\ IsSora /\ pc = "returned"
    /\ StatusFetches = 3
    /\ RejectedPoll(Len(log) - 1)
    /\ NumStepFailed = 1

\* C10: a provider-facing failure, a missing expected field included, never
\* leaves the tool as an exception; only a fault of the persistence adapter or
\* an image argument that cannot be decoded (neither is provider-facing) does.
\* Fails: a 201 creation response without "id", a status payload without
\* "status" and an image response without "data" raise KeyError.
C10_NoProviderFaultEscapes ==
    pc = "raised" => fault \in {"persistence", "binascii.Error"}

----------------------------------------------------------------------------
(* Claims on the order of events and calls *)

IsDescribe(e) == e.op = "describe"
IsRunInProgress(e) == IsEvent(e) /\ e.status \in {"run in_progress", "run_in_progress"}
IsStepInProgress(e) == IsEvent(e) /\ e.status \in {"step in_progress", "step_in_progress"}
IsFinalEvent(e) == IsRunCompleted(e) \/ IsStepFailed(e)
NumFinalEvents == CountLog(IsFinalEvent)

SucceededBefore(i) ==
    \E j \in 1..(i - 1) : IsAnsweredPoll(log[j]) /\ log[j].info[1] = "succeeded"

FailedRequest ==
    \/ RejectedCreation
    \/ \E i \in DOMAIN log : RejectedPoll(i)
    \/ \E i \in DOMAIN Polled : Polled[i] \in {"failed", "cancelled"}

\* C11: the content fetch is issued only after a status fetch has observed
\* "succeeded"; after an observed "failed" or "cancelled", or after a failed
\* creation or status request, no content fetch and no persistence call is made.
C11_ContentOnlyAfterSucceeded ==
    IsSora =>
        /\ \A i \in DOMAIN log :
               (IsContentFetch(log[i]) \/ IsPersist(log[i])) => SucceededBefore(i)
        /\ FailedRequest => (CountLog(IsContentFetch) = 0 /\ PersistCalls = 0)

C11_Witness ==
    /\ IsSora /\ pc = "returned"
    /\ CountLog(IsContentFetch) = 1 /\ PersistCalls = 1
    /\ Polled = <<"queued", "succeeded">>

\* C12: once an invocation has emitted its final event ("run completed" or
\* "step failed") it emits no further event and makes no further call; no
\* invocation emits both, and every invocation that returns has emitted exactly
\* one final event.
\* Fails: the image tools return [] on an empty "data" list with no final
\* event (the defect of C1).
C12_ExactlyOneFinalEvent ==
    /\ \A i \in DOMAIN log : IsFinalEvent(log[i]) => i = Len(log)
    /\ ~(NumRunCompleted > 0 /\ NumStepFailed > 0)
    /\ pc = "returned" => NumFinalEvents = 1

\* C13: the first event of an invocation is the run-in-progress event, it
\* precedes every external call, it is emitted exactly once, and every later
\* event is a step event or the final event.
\* Fails: gpt_image_capture emits a second event with status "run_in_progress"
\* ("Persisting image and description").
C13_RunInProgressOnce ==
    log # <<>> =>
        /\ IsRunInProgress(log[1])
        /\ \A i \in DOMAIN log :
               (i > 1 /\ IsEvent(log[i])) =>
                   /\ ~IsRunInProgress(log[i])
                   /\ \/ IsStepInProgress(log[i])
                      \/ IsStepCompleted(log[i])
                      \/ IsFinalEvent(log[i])

\* C14: a "step completed" event with the output flag is emitted only after the
\* external call has returned a result that is not an error and the persistence
\* of that artifact has returned the reference the event carries: for video
\* after "succeeded", a 200 content fetch and the persistence call; for images
\* after a response without error and the persistence of that image.
C14_ArtifactOnlyAfterPersistence ==
    \A i \in DOMAIN log :
        (IsStepCompleted(log[i]) /\ log[i].output) =>
            /\ i > 1 /\ IsStored(log[i - 1]) /\ log[i - 1].refs = log[i].refs
            /\ IsSora =>
                  /\ SucceededBefore(i)
                  /\ \E j \in 1..(i - 1) : IsContentFetch(log[j]) /\ log[j].code = 200
                  /\ \A j \in 1..(i - 1) : IsContentFetch(log[j]) => log[j].code = 200
            /\ IsImageTool =>
                  /\ \E j \in 1..(i - 1) : IsPost(log[j])
                  /\ response.error = <<>>

C14_Witness ==
    /\ IsSora /\ pc = "returned"
    /\ NumStepCompleted = 1
    /\ Last(log).status = "run completed"
    /\ log[Len(log) - 1].output

\* an entry that starts a phase which can fail on its own: the request, the
\* description, the polling (it starts with a delay), the content fetch, and the
\* first persistence call
StartsPhase(i) ==
    \/ IsPost(log[i])
    \/ IsDescribe(log[i])
    \/ IsContentFetch(log[i])
    \/ IsSleep(log[i]) /\ \A j \in 1..(i - 1) : ~IsSleep(log[j])
    \/ IsPersist(log[i]) /\ \A j \in 1..(i - 1) : ~IsPersist(log[j])

\* C15: every phase that can fail on its own is directly preceded by a
\* step-in-progress event.
\* Fails: in gpt_image_capture the description and the persistence are preceded
\* by events with status "run_in_progress" only.
C15_PhasePrecededByStepEvent ==
    \A i \in DOMAIN log :
        StartsPhase(i) => (i > 1 /\ IsStepInProgress(log[i - 1]))

\* the latest status fetch, when there is one
LatestFetch == CHOOSE i \in DOMAIN log :
                   IsStatusFetch(log[i]) /\ \A j \in DOMAIN log : j > i => ~IsStatusFetch(log[j])

\* C16: every status fetch, the first included, directly follows one delay,
\* every delay is followed by a status fetch, and the loop fetches again after
\* any status outside succeeded, failed, cancelled, provider-defined ones included.
C16_DelayBeforeEveryFetch ==
    IsSora =>
        /\ \A i \in DOMAIN log :
               IsStatusFetch(log[i]) =>
                   (i > 1 /\ IsSleep(log[i - 1]) /\ (i > 2 => ~IsSleep(log[i - 2])))
        /\ \A i \in DOMAIN log :
               IsSleep(log[i]) =>
                   IF i = Len(log) THEN pc = "get_status" ELSE IsStatusFetch(log[i + 1])
        /\ CountLog(IsSleep) = StatusFetches + (IF pc = "get_status" THEN 1 ELSE 0)
        /\ (StatusFetches > 0 /\ IsAnsweredPoll(log[LatestFetch])
            /\ log[LatestFetch].info[1] \notin {"succeeded", "failed", "cancelled"})
               => pc \in {"notify_status", "sleep", "get_status"}

C16_Witness ==
    /\ IsSora /\ pc = "sleep"
    /\ Polled = <<"queued", "started", "running">>
    /\ CountLog(IsSleep) = 3

\* the provider has rejected the creation or a status fetch, or the status
\* last polled is terminal
ProviderEnded ==
    \/ RejectedCreation
    \/ \E i \in DOMAIN log : RejectedPoll(i)
    \/ (Polled # <<>> /\ Last(Polled) \in {"succeeded", "failed", "cancelled"})

\* a call made after the provider's last answer did not respond: the
\* persistence adapter faulted
CallFaulted == pc = "raised" /\ fault = "persistence"

\* C17: when every external call responds, a sora_video_generation invocation
\* returns once the provider has reported a terminal status or has rejected the
\* creation or a status fetch; it returns only then, so with a provider that
\* never does so it never returns.
C17_ReturnsOnlyAndAlwaysOnTerminal ==
    /\ []((IsSora /\ ProviderEnded) => <>(pc = "returned" \/ CallFaulted))
    /\ []((IsSora /\ pc = "returned") => ProviderEnded)

C17_Witness ==
    /\ IsSora /\ pc = "returned"
    /\ Polled = <<"queued", "running", "started", "succeeded">>

\* C18: when the persistence adapter faults on artifact k, the fault leaves the
\* tool: no "run completed", no "step failed", no returned list, and the
\* "step completed" events of artifacts 1..k-1 stay in the stream.
C18_PersistenceFaultPropagates ==
    (\E i \in DOMAIN log : IsPersist(log[i]) /\ log[i].refs = <<>>) =>
        /\ pc = "raised" /\ fault = "persistence"
        /\ IsPersist(Last(log)) /\ Last(log).refs = <<>>
        /\ NumRunCompleted = 0
        /\ NumStepFailed = 0
        /\ ret = <<>>
        /\ NumStepCompleted = PersistCalls - 1
        /\ AnnouncedRefs = StoredRefs

C18_Witness ==
    /\ tool = "gpt_image_generation"
    /\ pc = "raised" /\ fault = "persistence"
    /\ PersistCalls = 2 /\ NumStepCompleted = 1

\* C19: within one image invocation artifacts are stored and announced one after
\* the other: the "step completed" of artifact k directly follows its storage
\* and precedes the storage of artifact k+1, so the stored artifacts exceed the
\* announced ones by at most one.
C19_StoredThenAnnounced ==
    (IsImageTool \/ tool = "gpt_image_capture") =>
        /\ \A i \in DOMAIN log :
               IsStored(log[i]) =>
                   IF i = Len(log) THEN pc = "notify_step_completed"
                   ELSE IsStepCompleted(log[i + 1]) /\ log[i + 1].refs = log[i].refs
        /\ Len(StoredRefs) - NumStepCompleted \in {0, 1}

C19_Witness ==
    /\ IsImageTool /\ pc = "save_image"
    /\ Len(StoredRefs) = 1 /\ NumStepCompleted = 1
    /\ base64_images # <<>>

----------------------------------------------------------------------------
(* Claims on invocations that run side by side *)

\* the frame of invocation p, running or suspended
FrameOf(p) == IF p = cur THEN CurFrame ELSE parked[p]

IsCallEntry(e) == e.op # "notify"

\* what the outside world gave an invocation: its arguments, the answers to its
\* calls (the call entries carry status codes, polled statuses and stored
\* names) and the bodies it read
InputsOf(f) ==
    <<f.tool, f.n, f.image, SelectSeq(f.log, IsCallEntry), f.response,
      f.error_response, f.job_id,
      IF f.status \in Terminal THEN <<f.status_data>> ELSE <<>> >>

Ended(f) == f.pc \in {"returned", "raised"}

\* C20: when invocations interleave at their awaits, a step of one invocation
\* or a switch of the event loop leaves the frame of every other invocation
\* (last observed status, job id, artifact list, events) as it was, and two
\* invocations that were given the same arguments and the same answers end with
\* the same events and the same result, however they were interleaved.
C20_InvocationsIsolated ==
    /\ [][\A p \in Procs : p # cur => FrameOf(p)' = FrameOf(p)]_vars
    /\ [](\A p, q \in Procs :
             (Ended(FrameOf(p)) /\ Ended(FrameOf(q))
              /\ InputsOf(FrameOf(p)) = InputsOf(FrameOf(q))) =>
                 /\ FrameOf(p).log = FrameOf(q).log
                 /\ FrameOf(p).ret = FrameOf(q).ret
                 /\ FrameOf(p).fault = FrameOf(q).fault)

\* both invocations are in flight, suspended at different awaits, with different
\* last observed statuses
C20_Witness ==
    /\ Concurrent /\ cur = 2
    /\ tool = "sora_video_generation" /\ pc = "get_status" /\ status = "started"
    /\ parked[1].tool = "sora_video_generation"
    /\ parked[1].pc = "get_content" /\ parked[1].status = "succeeded"
    /\ parked[1].job_id = "job-1"

----------------------------------------------------------------------------
\* C21: for every tool, the list a completed invocation returns is, in order,
\* the references carried by its "step completed" events, and every returned
\* element is a reference the persistence adapter produced in that invocation.
\* Fails: sora_video_generation returns [""] whatever it announced.
C21_ReturnIsAnnouncedRefs ==
    pc = "returned" =>
        /\ ret = AnnouncedRefs
        /\ \A i \in DOMAIN ret : \E j \in DOMAIN StoredRefs : ret[i] = StoredRefs[j]

----------------------------------------------------------------------------
\* C22: every event emitted during one invocation carries the same tool
\* identifier, on success paths and on every failure path.
\* Fails: gpt_image_edit reports a provider error under "image_generation" and
\* sora_video_generation reports a rejected content fetch under
\* "video_generation".
C22_OneToolIdPerInvocation ==
    \A i, j \in DOMAIN Events : Events[i].id = Events[j].id

----------------------------------------------------------------------------
\* the "job created" event has been emitted: the polling loop has been entered
JobAnnounced == \E i \in DOMAIN log : IsEvent(log[i]) /\ log[i].status = "step_in_progress"

\* the last-observed status once k status fetches have been handled
Observed(k) == IF k = 0 THEN "started" ELSE Polled[k]

\* the number of answered status fetches among the first i entries of the log
AnsweredUpTo(i) == Cardinality({j \in 1..i : IsAnsweredPoll(log[j])})

\* C23: in sora_video_generation the last-observed status starts as "started"
\* and, once a successful status fetch has been handled, equals the status
\* just fetched; a status event is emitted at a poll if and only if the
\* fetched status differs from the last-observed status, so the first poll
\* emits an event whenever its status is not "started".
C23_LastObservedStatus ==
    (IsSora /\ JobAnnounced) =>
        /\ status = Observed(Len(Polled) - (IF pc = "notify_status" THEN 1 ELSE 0))
        /\ \A i \in DOMAIN log :
               IsAnsweredPoll(log[i]) =>
                   LET changed == log[i].info[1] # Observed(AnsweredUpTo(i) - 1)
                   IN  IF i = Len(log)
                       THEN (pc = "notify_status") <=> changed
                       ELSE IsStatusEvent(log[i + 1]) <=> changed

\* the first poll reports the sentinel itself and is silent, the second and the
\* fourth report a change, the third repeats the second
C23_Witness ==
    /\ IsSora /\ pc = "returned" /\ status = "succeeded"
    /\ Polled = <<"started", "queued", "queued", "succeeded">>
    /\ NumStatusEvents = 2

----------------------------------------------------------------------------
NumPosts == CountLog(IsPost)
NumContentFetches == CountLog(IsContentFetch)

\* C24: a sora_video_generation invocation makes at most one job-creation
\* request, at most one content fetch and at most one persistence call,
\* whatever the number of generations in the succeeded status payload; only the
\* first generation is fetched.
C24_OneRequestOfEachKind ==
    IsSora =>
        /\ NumPosts <= 1
        /\ NumContentFetches <= 1
        /\ PersistCalls <= 1
        /\ \A i \in DOMAIN log :
               IsContentFetch(log[i]) =>
                   log[i].info = <<Get(status_data.generations, <<>>)[1]>>

\* a job that succeeded with two generations: one fetch, of the first, one
\* persistence call
C24_Witness ==
    /\ IsSora /\ pc = "returned" /\ status = "succeeded"
    /\ Len(Get(status_data.generations, <<>>)) = 2
    /\ NumPosts = 1 /\ NumContentFetches = 1 /\ PersistCalls = 1
    /\ Len(StoredRefs) = 1

----------------------------------------------------------------------------
(* api/tools/image: create_image *)

\* request.image: None, a base64 string, or a URL (scheme, then the rest)
RequestImages == {<<>>, <<"img-a">>, <<"http", "://host/ref.png">>}

\* Content-Type headers of the fetched reference image
ContentTypes == {"image/png", "text/html"}

\* BASE_URL
BaseUrl == "http://localhost:8000"

\* ImageResponse(image_url=f"{BASE_URL}/{image_name}"): the two parts joined by "/"
ImageResponse(image_name) == <<BaseUrl, image_name>>

\* isinstance(request.image, str) and request.image.startswith("http")
IsUrl(img) == img # <<>> /\ img[1] = "http"

\* resp.status == 200
FetchAccepted(code) == code = 200

\* mutant of PostAccepted: every 2xx answer is read as a result
PostAccepted_Any2xx(code) == code \in 200..299

\* response.status == 200
PostAccepted(code) == code = 200

\* result and "data" in result and len(result["data"]) > 0
HasImageData(result) == result.data # <<>> /\ Len(result.data[1]) > 0

IsImageFetch(e) == e.op = "get_image"

\* the file names of image_dict when the form is built
ImageDict ==
    IF /\ pc # "read_image"
       /\ \E i \in DOMAIN log : /\ IsImageFetch(log[i]) /\ log[i].code = 200
                                 /\ log[i].info = <<"image/png">>
    THEN <<"base.png", "user_provided_image.png">>
    ELSE <<"base.png">>

\* async with session.get(request.image) as resp, when request.image is a URL
CreateFetchImage ==
    /\ tool = "create_image" /\ pc = "fetch_image"
    /\ IF IsUrl(image)
       THEN \E code \in {200, 404}, ctype \in ContentTypes :
               /\ log' = Append(log, Call("get_image", code, <<ctype>>, <<>>))
               /\ IF FetchAccepted(code)
                  THEN Goto(IF ctype = "image/png" THEN "read_image" ELSE "post")
                  ELSE Raise("Error fetching image from URL")
       ELSE /\ Goto("post")
            /\ UNCHANGED log
    /\ UNCHANGED <<sched, Args, ImageLocals, SoraLocals>>

\* image_data = await resp.read(), then the image joins image_dict
CreateReadImage ==
    /\ tool = "create_image" /\ pc = "read_image"
    /\ Goto("post")
    /\ UNCHANGED <<sched, Args, log, ImageLocals, SoraLocals>>

\* async with session.post(endpoint, headers=headers, data=form_data) as response
CreatePost ==
    /\ tool = "create_image" /\ pc = "post"
    /\ \E code \in {200, 201, 400} :
        log' = Append(log, Call("post", code, ImageDict, <<>>))
    /\ Goto("post_body")
    /\ UNCHANGED <<sched, Args, ImageLocals, SoraLocals>>

\* result = await response.json() and the test of its data, or
\* error_message = await response.text() and the raise
CreatePostBody ==
    /\ tool = "create_image" /\ pc = "post_body"
    /\ IF PostAccepted(LastCode)
       THEN \E result \in Responses :
               /\ response' = result
               /\ IF HasImageData(result)
                  THEN IF result.data[1][1] = <<>>
                       THEN Raise("KeyError")
                       ELSE Goto("save_image")
                  ELSE Raise("No image data returned from the API.")
       ELSE /\ Raise("Error generating image")
            /\ UNCHANGED response
    /\ UNCHANGED <<sched, Args, log, base64_images, images, SoraLocals>>

\* image_name = await save_image_blob(image_base64, "tools"), then the return
CreateSaveImage ==
    /\ tool = "create_image" /\ pc = "save_image"
    /\ \E stored \in BOOLEAN :
        IF stored
        THEN /\ log' = Append(log, Call("persist", 0, response.data[1][1], <<NextBlob>>))
             /\ Return(ImageResponse(NextBlob))
        ELSE /\ log' = Append(log, Call("persist", 0, response.data[1][1], <<>>))
             /\ Raise("persistence")
    /\ UNCHANGED <<sched, Args, ImageLocals, SoraLocals>>

\* a request enters the endpoint
EndpointFrames ==
    {[f EXCEPT !.tool = "create_image", !.image = img, !.pc = "fetch_image"] :
        f \in {g \in InitFrames : g.tool = "gpt_image_edit" /\ g.n = 0 /\ g.image = <<>>},
        img \in RequestImages}

EndpointInit ==
    /\ \E f \in EndpointFrames : Enter(f)
    /\ cur = 1
    /\ parked = <<>>

EndpointNext ==
    \/ CreateFetchImage
    \/ CreateReadImage
    \/ CreatePost
    \/ CreatePostBody
    \/ CreateSaveImage

EndpointSpec == EndpointInit /\ [][EndpointNext]_vars

----------------------------------------------------------------------------
IsCreateImage == tool = "create_image"

\* the provider POST was answered with 200
Posted200 == \E i \in DOMAIN log : IsPost(log[i]) /\ log[i].code = 200
PostedOther == \E i \in DOMAIN log : IsPost(log[i]) /\ log[i].code # 200
FetchedOther == \E i \in DOMAIN log : IsImageFetch(log[i]) /\ log[i].code # 200

\* the cases in which the endpoint raises without persisting
RaisesUnpersisted ==
    (PostedOther \/ (Posted200 /\ ~HasImageData(response)) \/ FetchedOther) =>
        pc = "raised" /\ PersistCalls = 0

\* C25 (as stated): create_image returns an ImageResponse if and only if the
\* provider POST returned 200 with a non-empty data list and exactly one
\* persistence call was made; on a non-200 provider response, a 200 response
\* with missing or empty data, or a non-200 fetch of a user-supplied image URL,
\* it raises and makes no persistence call.
C25_ReturnsIffPersistenceCalled ==
    (IsCreateImage /\ Finished) =>
        /\ pc = "returned" <=> (Posted200 /\ HasImageData(response) /\ PersistCalls = 1)
        /\ RaisesUnpersisted

\* C25 (amended): create_image returns an ImageResponse if and only if the
\* provider POST returned 200 with a non-empty data list and exactly one
\* persistence call was made and returned a blob name, and the response then
\* carries that name; on a non-200 provider response, a 200 response with
\* missing or empty data, or a non-200 fetch of a user-supplied image URL, it
\* raises and makes no persistence call.
C25_ReturnsIffPersisted ==
    (IsCreateImage /\ Finished) =>
        /\ pc = "returned" <=>
               (Posted200 /\ HasImageData(response)
                /\ PersistCalls = 1 /\ Len(StoredRefs) = 1)
        /\ pc = "returned" => ret = ImageResponse(StoredRefs[1])
        /\ RaisesUnpersisted

\* a request with a reference URL that was fetched, posted and persisted
C25_Witness ==
    /\ IsCreateImage /\ pc = "returned" /\ IsUrl(image)
    /\ Posted200 /\ Len(response.data[1]) = 2
    /\ PersistCalls = 1 /\ ret = <<BaseUrl, "blob-1">>

====
